---- MODULE Spec2Model ----
(***************************************************************************)
(* Model of the bulk product importer (CSV upload and Shopee cURL replay)  *)
(* and of the order notification services of the admin plugins.            *)
(*                                                                         *)
(* Text values (names, slugs, SKUs, prices) are sequences of one-character *)
(* strings so that trimming, slugifying and number parsing are computed.   *)
(* The commerce framework (product, variant, asset, tax-category and       *)
(* collection services, the ORM repositories) is the environment: a call   *)
(* either takes effect on the catalog or throws.                           *)
(***************************************************************************)
EXTENDS Integers, Sequences, FiniteSets, TLC

VARIABLES
    input,          \* rows of the uploaded file / items of the Shopee payload
    mode,           \* "csv" (importProductsFromCsv) or "shopee" (importProductsFromShopee)
    dryRunArg,      \* the dryRun argument: "true", "false" or "undefined"
    records,        \* records: the parsed rows
    catalog,        \* persisted products, variants, assets
    pc,             \* position of the import request
    row,            \* row counter of the request's loop
    acc,            \* items and counters of the loop body that processes records
    out,            \* items and counters of importFromShopeeCurl
    productId,      \* productId of the record being processed (0: none yet)
    variantId,      \* createdVariant.id of the record being processed (0: none yet)
    urlIdx,         \* URLs of the current asset list already started
    createdAssetIds,\* createdAssetIds / createdVariantAssetIds of the current list
    inflight,       \* asset fetch-and-upload operations in progress
    result,         \* the ImportProductsResult returned
    trace,          \* history: framework and network operations, in order
    throws,         \* history: exceptions thrown while processing records
    catalogAt,      \* history: the catalog when each row started
    previous,       \* history: the result of the page's previous request for the file
    requests,       \* the live CSV imports the server is handling at the same time
    templates,      \* the stored NotificationTemplate rows
    nextTemplateId, \* the next generated primary key
    options,        \* the PluginInitOptions of the notification services
    last,           \* history: what the last template mutation or notification call did
    files,          \* files: the File objects handed to processFilesWithHeicConversion
    fileIdx,        \* files of the list already processed
    processedFiles, \* processedFiles
    conversions,    \* conversions (with the index of the input file as history)
    errors,         \* errors (with the index of the input file as history)
    converted,      \* the value processFilesWithHeicConversion returned
    feedback        \* history: the dashboard's mutations and how each outcome was shown

importVars == <<input, mode, dryRunArg, records, catalog, pc, row, acc, out,
                productId, variantId, urlIdx, createdAssetIds, inflight,
                result, trace, throws, catalogAt, previous, requests>>

notifyVars == <<templates, nextTemplateId, options, last>>

clientVars == <<files, fileIdx, processedFiles, conversions, errors, converted, feedback>>

-----------------------------------------------------------------------------
(* Bounds *)

MaxRecords == 2
MaxTemplateId == 4
MaxFiles == 3
MaxMutations == 3

-----------------------------------------------------------------------------
(* Text helpers *)

Whitespace == {" "}
Digits == {"0", "1", "5"}

\* String.prototype.trim
RECURSIVE TrimLeft(_)
TrimLeft(s) ==
    IF s # <<>> /\ Head(s) \in Whitespace THEN TrimLeft(Tail(s)) ELSE s

RECURSIVE TrimRight(_)
TrimRight(s) ==
    IF s # <<>> /\ s[Len(s)] \in Whitespace
    THEN TrimRight(SubSeq(s, 1, Len(s) - 1))
    ELSE s

Trim(s) == TrimRight(TrimLeft(s))

\* toLowerCase on the characters of the model's alphabet
ToLowerCase(c) ==
    CASE c = "T" -> "t"
      [] c = "C" -> "c"
      [] c = "A" -> "a"
      [] c = "B" -> "b"
      [] c = "E'" -> "e'"
      [] c = "H" -> "h"
      [] c = "E" -> "e"
      [] c = "I" -> "i"
      [] c = "F" -> "f"
      [] OTHER -> c

\* normalize('NFKD') then removal of the combining marks U+0300..U+036F:
\* an accented letter (written with a trailing quote here) loses its accent
StripDiacritics(c) ==
    CASE c = "e'" -> "e"
      [] OTHER -> c

IsSlugChar(c) == c \in {"a", "b", "c", "e", "p", "t", "0", "1", "5"}

RECURSIVE DropNonSlug(_)
DropNonSlug(s) ==
    IF s # <<>> /\ ~IsSlugChar(Head(s)) THEN DropNonSlug(Tail(s)) ELSE s

\* replace(/[^a-z0-9]+/g, '-')
RECURSIVE DashRuns(_)
DashRuns(s) ==
    IF s = <<>> THEN <<>>
    ELSE IF IsSlugChar(Head(s)) THEN <<Head(s)>> \o DashRuns(Tail(s))
    ELSE <<"-">> \o DashRuns(DropNonSlug(Tail(s)))

\* replace(/(^-|-$)+/g, '')
TrimDashes(s) ==
    LET a == IF s # <<>> /\ Head(s) = "-" THEN Tail(s) ELSE s
    IN  IF a # <<>> /\ a[Len(a)] = "-" THEN SubSeq(a, 1, Len(a) - 1) ELSE a

\* slugify(input)
slugify(s) ==
    TrimDashes(DashRuns([i \in 1..Len(s) |-> StripDiacritics(ToLowerCase(s[i]))]))

\* Number(String(raw).replace(/[\,\s]/g, '')) is finite: the model's alphabet has
\* digits, commas, blanks and letters; the empty string converts to 0
StripSeparators(s) == SelectSeq(s, LAMBDA c : c \notin (Whitespace \cup {","}))

IsFiniteNumber(s) == \A i \in 1..Len(StripSeparators(s)) : StripSeparators(s)[i] \in Digits

\* split('|').map(trim).filter(Boolean): a column is its list of pieces
SplitList(col) == SelectSeq(col, LAMBDA u : u # "")

Range(s) == {s[i] : i \in 1..Len(s)}

-----------------------------------------------------------------------------
(* Inputs: the rows of a file. A row carries the columns the importer reads *)

Tee == <<"T", "e", "e">>
tee == <<"t", "e", "e">>
Cap == <<"C", "a", "p">>

BaseRow ==
    [sku |-> <<"A">>, name |-> Tee, slug |-> <<>>, price |-> <<"1", ",", "5">>,
     listPrice |-> <<>>, taxId |-> <<>>, taxName |-> <<>>,
     assets |-> <<>>, variantAssets |-> <<>>, collectionName |-> <<>>]

RowShapes ==
    { BaseRow,
      \* blank sku, with an asset listed
      [BaseRow EXCEPT !.sku = <<" ">>, !.assets = <<"u1">>],
      \* no name
      [BaseRow EXCEPT !.sku = <<"B">>, !.name = <<>>],
      \* another sku whose name slugifies to the slug of Tee; two asset URLs
      \* around a blank piece
      [BaseRow EXCEPT !.sku = <<"B">>, !.name = <<" ", "t", "E'", "e", "!">>,
                      !.assets = <<"u1", "", "u2">>],
      \* a given slug, a known tax category, a known and an unknown collection
      [BaseRow EXCEPT !.sku = <<"B">>, !.name = Cap, !.slug = tee,
                      !.taxName = <<"S">>,
                      !.collectionName = <<"Sale", "", "Nope">>],
      \* the sku of BaseRow under a name with its own slug, a tax id, a variant asset
      [BaseRow EXCEPT !.name = Cap, !.taxId = <<"7">>, !.variantAssets = <<"u1">>],
      \* invalid price
      [BaseRow EXCEPT !.price = <<"x">>],
      \* invalid list price
      [BaseRow EXCEPT !.sku = <<"B">>, !.listPrice = <<"1", "x">>],
      \* unknown tax category
      [BaseRow EXCEPT !.sku = <<"C">>, !.taxName = <<"Z">>] }

RECURSIVE SeqsUpTo(_, _)
SeqsUpTo(S, n) ==
    IF n = 0 THEN {<<>>}
    ELSE LET shorter == SeqsUpTo(S, n - 1)
         IN  shorter \cup {Append(s, x) : s \in {t \in shorter : Len(t) = n - 1}, x \in S}

Inputs == SeqsUpTo(RowShapes, MaxRecords)

\* Names of the tax categories and collections that exist
TaxCategories == {<<"S">>}
Collections == {"Sale"}

-----------------------------------------------------------------------------
(* The catalog kept by the framework *)

EmptyCatalog == [products |-> <<>>, variants |-> <<>>, assets |-> 0]

SeededCatalog ==
    [products |-> << [slug |-> tee, name |-> Tee, assetIds |-> <<>>,
                      featuredAssetId |-> 0, collections |-> {}] >>,
     variants |-> << [sku |-> <<"A">>, productId |-> 1, assetIds |-> <<>>,
                      featuredAssetId |-> 0] >>,
     assets |-> 0]

Catalogs == {EmptyCatalog, SeededCatalog}

Min(S) == CHOOSE x \in S : \A y \in S : x <= y

\* a lookup that compares the product's name instead of its slug
FindProductByName(cat, slug) ==
    LET hits == {i \in 1..Len(cat.products) : cat.products[i].name = slug}
    IN  IF hits = {} THEN 0 ELSE Min(hits)

\* getRepository(Product)...where('translation.slug = :slug').getOne(): 0 is null
FindProductBySlug(cat, slug) ==
    LET hits == {i \in 1..Len(cat.products) : cat.products[i].slug = slug}
    IN  IF hits = {} THEN 0 ELSE Min(hits)

\* a lookup that finds no variant
NoVariantBySku(cat, sku) == 0

\* getRepository(ProductVariant).findOne({ where: { sku } }): 0 is null
FindVariantBySku(cat, sku) ==
    LET hits == {i \in 1..Len(cat.variants) : cat.variants[i].sku = sku}
    IN  IF hits = {} THEN 0 ELSE Min(hits)

\* productService.create with one translation { name, slug }
ProductServiceCreate(cat, name, slug) ==
    [cat EXCEPT !.products =
        Append(@, [slug |-> slug, name |-> name, assetIds |-> <<>>,
                   featuredAssetId |-> 0, collections |-> {}])]

\* a create call that stores the variant without its sku
CreateVariantWithoutSku(cat, pid, sku) ==
    [cat EXCEPT !.variants =
        Append(@, [sku |-> <<>>, productId |-> pid, assetIds |-> <<>>,
                   featuredAssetId |-> 0])]

\* productVariantService.create of one variant
ProductVariantServiceCreate(cat, pid, sku) ==
    [cat EXCEPT !.variants =
        Append(@, [sku |-> sku, productId |-> pid, assetIds |-> <<>>,
                   featuredAssetId |-> 0])]

\* assetService.createFromFileStream returning an Asset
AssetServiceCreate(cat) == [cat EXCEPT !.assets = @ + 1]

\* productService.update({ id, assetIds: [...existingIds, ...created], featuredAssetId })
ProductServiceUpdate(cat, pid, created) ==
    LET merged == cat.products[pid].assetIds \o created
    IN  [cat EXCEPT !.products[pid].assetIds = merged,
                    !.products[pid].featuredAssetId = merged[1]]

\* productVariantService.update([{ id, assetIds, featuredAssetId }])
ProductVariantServiceUpdate(cat, vid, created) ==
    [cat EXCEPT !.variants[vid].assetIds = created,
                !.variants[vid].featuredAssetId = created[1]]

\* relation(Product, 'collections').of(productId).add(matchedIds)
AddToCollections(cat, pid, matched) ==
    [cat EXCEPT !.products[pid].collections = @ \cup matched]

-----------------------------------------------------------------------------
(* The import request: handleUpload, importFromShopeeCurl, processRecords *)

EmptyAcc == [items |-> <<>>, created |-> 0, updated |-> 0, skipped |-> 0, failed |-> 0]

NoResult == [items |-> <<>>, summary |-> [total |-> 0 - 1]]

\* a dryRun flag that is ignored, and one that is read the wrong way round
dryRunIgnored(arg) == FALSE
dryRunNegated(arg) == arg = "false"

\* a default that imports when the flag is omitted
dryRunDefaultOff(arg) == arg = "true"

\* const dryRun = opts.dryRun ?? true
dryRun(arg) == IF arg = "undefined" THEN TRUE ELSE arg = "true"

\* the row objects importFromShopeeCurl builds from the response: name, sku, price,
\* slug, assets, variantAssets, collectionName, taxCategoryName and no other column
mapShopeePayloadToRows(data) ==
    [i \in 1..Len(data) |-> [data[i] EXCEPT !.taxId = <<>>, !.listPrice = <<>>]]

rec == records[row]

\* base.sku, base.productName, base.productSlug
baseSku(r) == Trim(r.sku)
baseName(r) == Trim(r.name)
baseSlug(r) == Trim(r.slug)

\* const slug = base.productSlug || this.slugify(name)
slugOf(r) == IF baseSlug(r) # <<>> THEN baseSlug(r) ELSE slugify(baseName(r))

\* the row number a loop body writes into its items: handleUpload counts the rows
\* of the file, processRecords is called with one record at a time
rowLabel == IF mode = "csv" THEN row ELSE 1

Item(status, message, pid, vid) ==
    [row |-> rowLabel, sku |-> baseSku(rec), status |-> status,
     message |-> message, productId |-> pid, variantId |-> vid]

MsgMissing == <<"Missing required fields: sku and name">>
MsgDryRun == IF mode = "csv" THEN <<"Dry run (would create new product/variant)">>
             ELSE <<"Dry run">>
MsgSkuExists == <<"Variant with SKU already exists">>
MsgAsset(list, url, m) ==
    IF list = "assets" THEN <<"Asset import failed for", url, m>>
    ELSE <<"Variant asset import failed for", url, m>>

\* a check that wants both fields missing
missingBoth(r) == Trim(r.sku) = <<>> /\ Trim(r.name) = <<>>

\* if (!sku || !name)
missingRequired(r) == baseSku(r) = <<>> \/ baseName(r) = <<>>

\* where control goes when the loop body is left for a record
afterRecord == IF mode = "csv" THEN "loop" ELSE "merge"

Event(op) == [row |-> row, op |-> op, list |-> "", idx |-> 0]
FetchEvent(op, list, idx) == [row |-> row, op |-> op, list |-> list, idx |-> idx]

\* a skip that pushes the item and counts the record as failed
AccSkippedAsFailed(a, message, pid) ==
    [a EXCEPT !.failed = @ + 1,
              !.items = Append(@, [row |-> IF mode = "csv" THEN row ELSE 1,
                                   sku |-> Trim(records[row].sku),
                                   status |-> "skipped", message |-> message,
                                   productId |-> pid, variantId |-> 0])]

\* skipped++; items.push({ ...base, status: 'skipped', ... }); continue
AccSkipped(a, message, pid) ==
    [a EXCEPT !.skipped = @ + 1,
              !.items = Append(@, Item("skipped", message, pid, 0))]

\* created++; items.push({ ...base, status: 'created', ... })
AccCreated(a, message, pid, vid) ==
    [a EXCEPT !.created = @ + 1,
              !.items = Append(@, Item("created", message, pid, vid))]

\* a row-level catch that pushes the item and forgets the counter
AccFailedUncounted(a, message) ==
    [a EXCEPT !.items = Append(@, [row |-> IF mode = "csv" THEN row ELSE 1,
                                   sku |-> Trim(records[row].sku),
                                   status |-> "failed", message |-> message,
                                   productId |-> 0, variantId |-> 0])]

\* the row-level catch: failed++; items.push({ ...base, status: 'failed', message })
AccFailed(a, message) ==
    [a EXCEPT !.failed = @ + 1,
              !.items = Append(@, Item("failed", message, 0, 0))]

\* a per-URL catch that also counts the record as failed
AccNoteCounted(a, message) == AccFailed(a, message)

\* the per-URL catch and the collection miss: items.push({ ...base, status: 'failed' })
AccNote(a, message) ==
    [a EXCEPT !.items = Append(@, Item("failed", message, 0, 0))]

\* an exception reaches the row-level catch
Catch(a, message) ==
    /\ acc' = AccFailed(a, <<message>>)
    /\ throws' = Append(throws, [row |-> row, level |-> "row", message |-> message])
    /\ pc' = afterRecord

ImportInit ==
    /\ input \in Inputs
    /\ mode \in {"csv", "shopee"}
    /\ dryRunArg \in {"true", "false", "undefined"}
    /\ catalog \in Catalogs
    /\ records = <<>>
    /\ pc = "start"
    /\ row = 0
    /\ acc = EmptyAcc
    /\ out = EmptyAcc
    /\ productId = 0
    /\ variantId = 0
    /\ urlIdx = 0
    /\ createdAssetIds = <<>>
    /\ inflight = {}
    /\ result = NoResult
    /\ trace = <<>>
    /\ throws = <<>>
    /\ catalogAt = <<>>
    /\ previous = NoResult
    /\ requests = <<>>

\* handleUpload: const records = await this.parseCsv(stream, opts.encoding)
ParseCsv ==
    /\ pc = "start" /\ mode = "csv"
    /\ \E ok \in BOOLEAN :
        IF ok THEN records' = input /\ pc' = "loop"
        ELSE records' = records /\ pc' = "threw"
    /\ UNCHANGED <<requests, previous, input, mode, dryRunArg, catalog, row, acc, out, productId,
                   variantId, urlIdx, createdAssetIds, inflight, result, trace,
                   throws, catalogAt,
                   notifyVars, clientVars>>

\* importFromShopeeCurl: parseCurl, fetch, res.json(), mapShopeePayloadToRows
ShopeeRequest ==
    /\ pc = "start" /\ mode = "shopee"
    /\ \E ok \in BOOLEAN :
        IF ok THEN records' = mapShopeePayloadToRows(input) /\ pc' = "loop"
        ELSE records' = records /\ pc' = "threw"
    /\ UNCHANGED <<requests, previous, input, mode, dryRunArg, catalog, row, acc, out, productId,
                   variantId, urlIdx, createdAssetIds, inflight, result, trace,
                   throws, catalogAt,
                   notifyVars, clientVars>>

\* for (const rec of records) { row++; const base = ...
\* (importFromShopeeCurl then enters processRecords with [rec])
NextRecord ==
    /\ pc = "loop" /\ row < Len(records)
    /\ row' = row + 1
    /\ pc' = "validate"
    /\ acc' = IF mode = "csv" THEN acc ELSE EmptyAcc
    /\ productId' = 0 /\ variantId' = 0 /\ urlIdx' = 0 /\ createdAssetIds' = <<>>
    /\ catalogAt' = Append(catalogAt, catalog)
    /\ trace' = Append(trace, [row |-> row + 1, op |-> "record", list |-> "", idx |-> 0])
    /\ UNCHANGED <<requests, previous, input, mode, dryRunArg, records, catalog, out, inflight, result, throws,
                   notifyVars, clientVars>>

\* required fields, price, listPrice, tax category, and the dry-run branch
ValidateRecord ==
    /\ pc = "validate"
    /\ LET r == rec
           needTax == Trim(r.taxId) = <<>> /\ Trim(r.taxName) # <<>>
           pass == IF dryRun(dryRunArg)
                   THEN /\ acc' = AccCreated(acc, MsgDryRun, 0, 0)
                        /\ pc' = afterRecord
                        /\ throws' = throws
                   ELSE /\ pc' = "product"
                        /\ UNCHANGED <<acc, throws>>
       IN  IF missingRequired(r)
           THEN /\ acc' = AccSkipped(acc, MsgMissing, 0)
                /\ pc' = afterRecord
                /\ UNCHANGED <<throws, trace>>
           ELSE IF r.price # <<>> /\ ~IsFiniteNumber(r.price)
           THEN Catch(acc, "Invalid price") /\ trace' = trace
           ELSE IF r.listPrice # <<>> /\ ~IsFiniteNumber(r.listPrice)
           THEN Catch(acc, "Invalid listPrice") /\ trace' = trace
           ELSE IF needTax
           THEN /\ trace' = Append(trace, Event("taxCategoryService.findAll"))
                /\ \E ok \in BOOLEAN :
                     IF ~ok THEN Catch(acc, "taxCategoryService.findAll failed")
                     ELSE IF Trim(r.taxName) \notin TaxCategories
                     THEN Catch(acc, "Tax category not found")
                     ELSE pass
           ELSE pass /\ trace' = trace
    /\ UNCHANGED <<requests, previous, input, mode, dryRunArg, records, catalog, row, out, productId,
                   variantId, urlIdx, createdAssetIds, inflight, result, catalogAt,
                   notifyVars, clientVars>>

\* Find or create product by slug
FindOrCreateProduct ==
    /\ pc = "product"
    /\ LET slug == slugOf(rec)
           existing == FindProductBySlug(catalog, slug)
           looked == Append(trace, Event("product.getOne"))
       IN  \/ /\ trace' = looked
              /\ Catch(acc, "product query failed")
              /\ UNCHANGED <<catalog, productId>>
           \/ /\ existing # 0
              /\ trace' = looked
              /\ productId' = existing
              /\ pc' = "sku"
              /\ UNCHANGED <<catalog, acc, throws>>
           \/ /\ existing = 0
              /\ trace' = Append(looked, Event("productService.create"))
              /\ \/ /\ catalog' = ProductServiceCreate(catalog, baseName(rec), slug)
                    /\ productId' = Len(catalog.products) + 1
                    /\ pc' = "sku"
                    /\ UNCHANGED <<acc, throws>>
                 \/ /\ Catch(acc, "productService.create failed")
                    /\ UNCHANGED <<catalog, productId>>
    /\ UNCHANGED <<requests, previous, input, mode, dryRunArg, records, row, out, variantId, urlIdx,
                   createdAssetIds, inflight, result, catalogAt,
                   notifyVars, clientVars>>

\* Skip if a variant with this SKU already exists
CheckExistingVariant ==
    /\ pc = "sku"
    /\ trace' = Append(trace, Event("variant.findOne"))
    /\ LET existingVariant == FindVariantBySku(catalog, baseSku(rec))
       IN  \/ Catch(acc, "variant query failed")
           \/ /\ existingVariant # 0
              /\ acc' = AccSkipped(acc, MsgSkuExists,
                                   catalog.variants[existingVariant].productId)
              /\ pc' = afterRecord
              /\ throws' = throws
           \/ /\ existingVariant = 0
              /\ pc' = "variant"
              /\ UNCHANGED <<acc, throws>>
    /\ UNCHANGED <<requests, previous, input, mode, dryRunArg, records, catalog, row, out, productId,
                   variantId, urlIdx, createdAssetIds, inflight, result, catalogAt,
                   notifyVars, clientVars>>

\* Create variant
CreateVariant ==
    /\ pc = "variant"
    /\ trace' = Append(trace, Event("productVariantService.create"))
    /\ \/ /\ catalog' = ProductVariantServiceCreate(catalog, productId, baseSku(rec))
          /\ variantId' = Len(catalog.variants) + 1
          /\ pc' = "assets"
          /\ UNCHANGED <<acc, throws>>
       \/ /\ Catch(acc, "productVariantService.create failed")
          /\ UNCHANGED <<catalog, variantId>>
    /\ urlIdx' = 0 /\ createdAssetIds' = <<>>
    /\ UNCHANGED <<requests, previous, input, mode, dryRunArg, records, row, out, productId, inflight,
                   result, catalogAt,
                   notifyVars, clientVars>>

\* the URLs of the list being imported: assetsList / variantAssetsList
urlsOf(r, list) == SplitList(IF list = "assets" THEN r.assets ELSE r.variantAssets)

\* a loop that starts the next URL without awaiting the previous one
noAwait(pending) == TRUE

\* for (const url of urls) { ... await this.fetchUrlAsReadable(url); await
\* this.assetService.createFromFileStream(...) }: the next iteration starts when
\* the awaited calls of the previous one have settled
awaitFetch(pending) == pending = {}

\* a loop that goes back to the URL that failed
retryFailedUrl(idx) == idx - 1

\* the per-URL catch pushes an item and the loop goes on to the next URL
afterFailedUrl(idx) == idx

\* this.fetchUrlAsReadable(url) is called for the next URL of the list
StartAssetFetch ==
    /\ pc \in {"assets", "variantAssets"}
    /\ urlIdx < Len(urlsOf(rec, pc))
    /\ awaitFetch(inflight)
    /\ urlIdx' = urlIdx + 1
    /\ inflight' = inflight \cup {[row |-> row, list |-> pc, idx |-> urlIdx + 1]}
    /\ trace' = Append(trace, FetchEvent("fetch", pc, urlIdx + 1))
    /\ UNCHANGED <<requests, previous, input, mode, dryRunArg, records, catalog, pc, row, acc, out,
                   productId, variantId, createdAssetIds, result, throws, catalogAt,
                   notifyVars, clientVars>>

\* the fetch and the upload settle: an asset id is kept, or the per-URL catch
\* pushes a failed item
FinishAssetFetch ==
    /\ pc \in {"assets", "variantAssets"}
    /\ \E f \in inflight :
        LET url == urlsOf(records[f.row], f.list)[f.idx]
            caught(m) ==
                /\ acc' = AccNote(acc, MsgAsset(f.list, url, m))
                /\ throws' = Append(throws, [row |-> f.row, level |-> "asset", message |-> m])
                /\ urlIdx' = afterFailedUrl(urlIdx)
                /\ UNCHANGED <<catalog, createdAssetIds>>
        IN  /\ inflight' = inflight \ {f}
            /\ \/ /\ caught("HTTP error fetching url")
                  /\ trace' = trace
               \/ /\ caught("asset creation error")
                  /\ trace' = Append(trace, FetchEvent("assetService.createFromFileStream", f.list, f.idx))
               \/ /\ catalog' = AssetServiceCreate(catalog)
                  /\ createdAssetIds' = Append(createdAssetIds, catalog.assets + 1)
                  /\ trace' = Append(trace, FetchEvent("assetService.createFromFileStream", f.list, f.idx))
                  /\ UNCHANGED <<acc, throws, urlIdx>>
    /\ UNCHANGED <<requests, previous, input, mode, dryRunArg, records, pc, row, out, productId,
                   variantId, result, catalogAt,
                   notifyVars, clientVars>>

\* if (createdAssetIds.length > 0) productService.update(...); then the variant assets
AttachProductAssets ==
    /\ pc = "assets"
    /\ urlIdx = Len(urlsOf(rec, "assets")) /\ inflight = {}
    /\ IF createdAssetIds = <<>>
       THEN /\ pc' = "variantAssets"
            /\ UNCHANGED <<catalog, acc, throws, trace>>
       ELSE /\ trace' = Append(trace, Event("productService.update"))
            /\ \/ /\ catalog' = ProductServiceUpdate(catalog, productId, createdAssetIds)
                  /\ pc' = "variantAssets"
                  /\ UNCHANGED <<acc, throws>>
               \/ /\ Catch(acc, "productService.update failed")
                  /\ catalog' = catalog
    /\ urlIdx' = 0 /\ createdAssetIds' = <<>>
    /\ UNCHANGED <<requests, previous, input, mode, dryRunArg, records, row, out, productId, variantId,
                   inflight, result, catalogAt,
                   notifyVars, clientVars>>

\* if (createdVariantAssetIds.length > 0) productVariantService.update(...)
AttachVariantAssets ==
    /\ pc = "variantAssets"
    /\ urlIdx = Len(urlsOf(rec, "variantAssets")) /\ inflight = {}
    /\ IF createdAssetIds = <<>>
       THEN /\ pc' = "collections"
            /\ UNCHANGED <<catalog, acc, throws, trace>>
       ELSE /\ trace' = Append(trace, Event("productVariantService.update"))
            /\ \/ /\ catalog' = ProductVariantServiceUpdate(catalog, variantId, createdAssetIds)
                  /\ pc' = "collections"
                  /\ UNCHANGED <<acc, throws>>
               \/ /\ Catch(acc, "productVariantService.update failed")
                  /\ catalog' = catalog
    /\ urlIdx' = 0 /\ createdAssetIds' = <<>>
    /\ UNCHANGED <<requests, previous, input, mode, dryRunArg, records, row, out, productId, variantId,
                   inflight, result, catalogAt,
                   notifyVars, clientVars>>

\* items.push for every name that matches no collection, in the order of the names
RECURSIVE AccMisses(_, _)
AccMisses(a, names) ==
    IF names = <<>> THEN a
    ELSE AccMisses(IF Head(names) \in Collections THEN a
                   ELSE AccNote(a, <<"Collection not found", Head(names)>>),
                   Tail(names))

\* Assign to collections by name; then created++ and the 'created' item
AssignCollections ==
    /\ pc = "collections"
    /\ LET names == SplitList(rec.collectionName)
           matched == Range(names) \cap Collections
           noted == AccMisses(acc, names)
           done(a) == /\ acc' = AccCreated(a, <<>>, productId, variantId)
                      /\ pc' = afterRecord
                      /\ throws' = throws
       IN  IF names = <<>>
           THEN done(acc) /\ UNCHANGED <<catalog, trace>>
           ELSE \/ /\ trace' = Append(trace, Event("collection.getMany"))
                   /\ Catch(acc, "collection query failed")
                   /\ catalog' = catalog
                \/ /\ matched = {}
                   /\ trace' = Append(trace, Event("collection.getMany"))
                   /\ done(noted)
                   /\ catalog' = catalog
                \/ /\ matched # {}
                   /\ trace' = Append(Append(trace, Event("collection.getMany")),
                                      Event("product.collections.add"))
                   /\ \/ /\ catalog' = AddToCollections(catalog, productId, matched)
                         /\ done(noted)
                      \/ /\ Catch(noted, "product.collections.add failed")
                         /\ catalog' = catalog
    /\ UNCHANGED <<requests, previous, input, mode, dryRunArg, records, row, out, productId, variantId,
                   urlIdx, createdAssetIds, inflight, result, catalogAt,
                   notifyVars, clientVars>>

\* a merge that keeps the row processRecords numbered the item with
keepRow(items, r) == items

\* result.items.map(i => ({ ...i, row }))
withRow(items, r) == [i \in 1..Len(items) |-> [items[i] EXCEPT !.row = r]]

\* importFromShopeeCurl: merge result counts & items of processRecords([rec])
ProcessRecordsReturn ==
    /\ pc = "merge"
    /\ out' = [items |-> out.items \o withRow(acc.items, row),
               created |-> out.created + acc.created,
               updated |-> out.updated + acc.updated,
               skipped |-> out.skipped + acc.skipped,
               failed |-> out.failed + acc.failed]
    /\ pc' = "loop"
    /\ UNCHANGED <<requests, previous, input, mode, dryRunArg, records, catalog, row, acc, productId,
                   variantId, urlIdx, createdAssetIds, inflight, result, trace,
                   throws, catalogAt,
                   notifyVars, clientVars>>

\* return { items, summary: { total: records.length, created, updated, skipped, failed } }
ReturnResult ==
    /\ pc = "loop" /\ row = Len(records)
    /\ LET a == IF mode = "csv" THEN acc ELSE out
       IN  result' = [items |-> a.items,
                      summary |-> [total |-> Len(records), created |-> a.created,
                                   updated |-> a.updated, skipped |-> a.skipped,
                                   failed |-> a.failed]]
    /\ pc' = "done"
    /\ UNCHANGED <<requests, previous, input, mode, dryRunArg, records, catalog, row, acc, out,
                   productId, variantId, urlIdx, createdAssetIds, inflight, trace,
                   throws, catalogAt,
                   notifyVars, clientVars>>

\* ImportPage: after a request for a file has returned, the import button sends
\* the same file again with dryRun = false (runImport(false)); the catalog is as
\* the first request left it
RunImportAgain ==
    /\ pc = "done" /\ previous = NoResult
    /\ previous' = result
    /\ dryRunArg' = "false"
    /\ pc' = "start"
    /\ records' = <<>> /\ row' = 0 /\ acc' = EmptyAcc /\ out' = EmptyAcc
    /\ productId' = 0 /\ variantId' = 0 /\ urlIdx' = 0 /\ createdAssetIds' = <<>>
    /\ result' = NoResult
    /\ trace' = <<>> /\ throws' = <<>> /\ catalogAt' = <<>>
    /\ UNCHANGED <<requests, input, mode, catalog, inflight, notifyVars, clientVars>>

ImportNext ==
    \/ ParseCsv
    \/ ShopeeRequest
    \/ NextRecord
    \/ ValidateRecord
    \/ FindOrCreateProduct
    \/ CheckExistingVariant
    \/ CreateVariant
    \/ StartAssetFetch
    \/ FinishAssetFetch
    \/ AttachProductAssets
    \/ AttachVariantAssets
    \/ AssignCollections
    \/ ProcessRecordsReturn
    \/ ReturnResult

-----------------------------------------------------------------------------
(* Notification templates and the notification services *)


\* enum NotificationType, enum NotificationEvent
NotificationType == {"email", "telegram"}
NotificationEvent == {"order_created", "order_status_changed", "order_confirmed",
                      "order_shipped"}

\* getDefaultTemplates(): the inputs, in order
getDefaultTemplates ==
    << [name |-> "Default Email Order Created", type |-> "email", event |-> "order_created"],
       [name |-> "Default Telegram Order Created", type |-> "telegram", event |-> "order_created"],
       [name |-> "Default Email Order Confirmed", type |-> "email", event |-> "order_confirmed"],
       [name |-> "Default Email Order Shipped", type |-> "email", event |-> "order_shipped"] >>

\* inputs of createNotificationTemplate tried by the administrator
CreateInputs ==
    { [name |-> "Custom Telegram", type |-> "telegram", event |-> "order_created"],
      [name |-> "Default Email Order Confirmed", type |-> "email", event |-> "order_confirmed"] }

Undefined == "undefined"

\* a name column without the unique constraint
nameNeverTaken(ts, name, id) == FALSE

\* @Column({ unique: true }) name: saving a row whose name another row has is rejected
nameTaken(ts, name, id) == \E t \in ts : t.name = name /\ t.id # id

\* a lookup by type and event alone, whatever isActive says
findByTypeAndEventOnly(ts, type, event) ==
    {t \in ts : t.type = type /\ t.event = event}

\* findOne({ where: { type, event, isActive: true } }): the rows that may be returned
findByTypeAndEvent(ts, type, event) ==
    {t \in ts : t.type = type /\ t.event = event /\ t.isActive}

\* create(): new NotificationTemplate({ ..., isActive: true }) and save
create(ts, id, in) ==
    ts \cup {[id |-> id, name |-> in.name, type |-> in.type, event |-> in.event,
              isActive |-> TRUE]}

\* what the last operation did: a template mutation (op, ok, created) or a
\* notification call (op, type, event, ready, lookup, templateId, rendering,
\* transport); lookup is "ok" when findByTypeAndEvent returned, "error" when it threw
\* trigger, toState, payment and payments describe the framework event that led to
\* the call: its kind, its target state, the method of the payment that changed
\* state and the methods of the order's payments ("none": a direct call)
\* duplicate: the mutation tried to save a name another row has; changed: it
\* changed the stored rows; settled: how the promise of a notification call ended
Nothing == [op |-> "none", ok |-> TRUE, created |-> 0, type |-> "", event |-> "",
            ready |-> FALSE, lookup |-> "none", templateId |-> 0,
            rendering |-> "none", transport |-> "none",
            trigger |-> "none", toState |-> "", payment |-> "", payments |-> {},
            duplicate |-> FALSE, changed |-> FALSE, settled |-> "none"]

Mutated(op, ok, created, duplicate, changed) ==
    [Nothing EXCEPT !.op = op, !.ok = ok, !.created = created,
                    !.duplicate = duplicate, !.changed = changed]

Called(op, type, event, ready, lookup, tid, rendering, transport) ==
    [Nothing EXCEPT !.op = op, !.type = type, !.event = event, !.ready = ready,
                    !.lookup = lookup, !.templateId = tid, !.rendering = rendering,
                    !.transport = transport]

IsCall(l) == l.type # ""

\* the configurations of the plugin: everything set, and each setting missing
AllSet == [telegramBotToken |-> TRUE, telegramChatId |-> TRUE,
           enableOrderStatusChangeNotifications |-> TRUE,
           enableEmailNotifications |-> TRUE]

OptionSets ==
    { AllSet,
      [AllSet EXCEPT !.telegramBotToken = FALSE],
      [AllSet EXCEPT !.telegramChatId = FALSE],
      [AllSet EXCEPT !.enableOrderStatusChangeNotifications = FALSE],
      [AllSet EXCEPT !.enableEmailNotifications = FALSE] }

NotifyInit ==
    /\ templates = {}
    /\ nextTemplateId = 1
    /\ options \in OptionSets
    /\ last = Nothing

\* the ids a request names: those of the stored rows, and one that matches no row
KnownIds == {t.id : t \in templates} \cup {nextTemplateId}

\* createNotificationTemplate
CreateNotificationTemplate ==
    /\ nextTemplateId <= MaxTemplateId
    /\ \E in \in CreateInputs :
        IF nameTaken(templates, in.name, 0)
        THEN /\ last' = Mutated("create", FALSE, 0, TRUE, FALSE)
             /\ UNCHANGED <<templates, nextTemplateId>>
        ELSE /\ templates' = create(templates, nextTemplateId, in)
             /\ nextTemplateId' = nextTemplateId + 1
             /\ last' = Mutated("create", TRUE, 1, FALSE, TRUE)
    /\ UNCHANGED <<options, importVars, clientVars>>

\* inputs of updateNotificationTemplate tried by the administrator
UpdateInputs ==
    { [name |-> "Custom Telegram", isActive |-> Undefined],
      [name |-> Undefined, isActive |-> "false"],
      [name |-> Undefined, isActive |-> "true"] }

\* updateNotificationTemplate: name and isActive are set when given
UpdateNotificationTemplate ==
    /\ \E id \in KnownIds, in \in UpdateInputs :
        LET found == {t \in templates : t.id = id}
            t == CHOOSE x \in found : TRUE
            u == [t EXCEPT !.name = IF in.name = Undefined THEN @ ELSE in.name,
                           !.isActive = IF in.isActive = Undefined THEN @
                                        ELSE in.isActive = "true"]
        IN  IF found = {} \/ nameTaken(templates, u.name, id)
            THEN /\ last' = Mutated("update", FALSE, 0, found # {}, FALSE)
                 /\ templates' = templates
            ELSE /\ templates' = (templates \ {t}) \cup {u}
                 /\ last' = Mutated("update", TRUE, 0, FALSE, u # t)
    /\ UNCHANGED <<nextTemplateId, options, importVars, clientVars>>

\* deleteNotificationTemplate: (result.affected ?? 0) > 0
DeleteNotificationTemplate ==
    /\ \E id \in KnownIds :
        /\ templates' = {t \in templates : t.id # id}
        /\ last' = Mutated("delete", templates' # templates, 0, FALSE,
                            templates' # templates)
    /\ UNCHANGED <<nextTemplateId, options, importVars, clientVars>>

\* a loop that returns after the first default it creates
initializeFirstMissing(ts, id, n) ==
    LET missing == {k \in 1..n :
                      /\ findByTypeAndEvent(ts, getDefaultTemplates[k].type,
                                            getDefaultTemplates[k].event) = {}
                      /\ ~nameTaken(ts, getDefaultTemplates[k].name, 0)}
        first == CHOOSE k \in missing : \A j \in missing : k <= j
    IN  IF missing = {}
        THEN [templates |-> ts, nextId |-> id, created |-> 0, duplicate |-> FALSE]
        ELSE [templates |-> create(ts, id, getDefaultTemplates[first]),
              nextId |-> id + 1, created |-> 1, duplicate |-> FALSE]

\* the loop of initializeDefaultNotificationTemplates over the first n defaults:
\* the stored rows, the next id, the number of templates created and whether a
\* create was rejected for its name (the catch in the loop logs the rejection and
\* the loop goes on)
RECURSIVE initializeDefaults(_, _, _)
initializeDefaults(ts, id, n) ==
    IF n = 0 THEN [templates |-> ts, nextId |-> id, created |-> 0, duplicate |-> FALSE]
    ELSE LET before == initializeDefaults(ts, id, n - 1)
             in == getDefaultTemplates[n]
         IN  IF findByTypeAndEvent(before.templates, in.type, in.event) # {}
             THEN before
             ELSE IF nameTaken(before.templates, in.name, 0)
             THEN [before EXCEPT !.duplicate = TRUE]
             ELSE [before EXCEPT !.templates = create(before.templates, before.nextId, in),
                                 !.nextId = before.nextId + 1,
                                 !.created = before.created + 1]

\* initializeDefaultNotificationTemplates: returns the created templates
InitializeDefaultNotificationTemplates ==
    /\ LET r == initializeDefaults(templates, nextTemplateId, Len(getDefaultTemplates))
       IN  /\ r.nextId - 1 <= MaxTemplateId
           /\ templates' = r.templates
           /\ nextTemplateId' = r.nextId
           /\ last' = Mutated("initialize", TRUE, r.created, r.duplicate,
                              r.templates # templates)
    /\ UNCHANGED <<options, importVars, clientVars>>

\* a response handler that rejects the promise when the status is not 200
rejectNon200(statusCode) == IF statusCode = 200 THEN "resolved" ELSE "rejected"

\* res.on("end", () => { if (res.statusCode === 200) resolve() else resolve() })
onEnd(statusCode) == "resolved"

\* how the promise of sendNotification ends for an outcome of the HTTP request:
\* a 200 response, another response, or the request's error event (resolve())
settle(transport) ==
    CASE transport = "sent" -> onEnd(200)
      [] transport = "rejected" -> onEnd(403)
      [] transport = "error" -> "resolved"

\* TelegramNotificationService.sendNotification(order); the early return and the
\* catch around the lookup and the rendering end the call normally
SendNotification ==
    /\ LET ready == options.telegramBotToken /\ options.telegramChatId
           found == findByTypeAndEvent(templates, "telegram", "order_created")
           made(lookup, tid, rendering, transport, settled) ==
               [Called("sendNotification", "telegram", "order_created", ready, lookup,
                       tid, rendering, transport) EXCEPT !.settled = settled]
       IN  IF ~ready
           THEN last' = made("none", 0, "none", "none", "resolved")
           ELSE \/ last' = made("error", 0, "none", "none", "resolved")
                \/ \E transport \in {"sent", "rejected", "error"} :
                     \/ \E t \in found, rendering \in {"template", "templateError"} :
                           last' = made("ok", t.id, rendering, transport, settle(transport))
                     \/ /\ found = {}
                        /\ last' = made("ok", 0, "default", transport, settle(transport))
    /\ UNCHANGED <<templates, nextTemplateId, options, importVars, clientVars>>

\* the body shared by the methods of EmailNotificationService: the options, the
\* customer's address, the template lookup, processTemplate and sendMail
\* the outcomes the call can have
emailOutcomes(op, event, hasEmail) ==
    LET enabled == options.enableOrderStatusChangeNotifications
                   /\ options.enableEmailNotifications
        ready == enabled /\ hasEmail
        found == findByTypeAndEvent(templates, "email", event)
        made(lookup, tid, rendering, transport) ==
            [Called(op, "email", event, ready, lookup, tid, rendering, transport)
                EXCEPT !.settled = "resolved"]
    IN  IF ~ready
        THEN {made("none", 0, "none", "none")}
        ELSE {made("error", 0, "none", "none")}
             \cup (IF found = {} THEN {made("ok", 0, "none", "none")} ELSE {})
             \cup {made("ok", t.id, rendering, transport) :
                      t \in found, rendering \in {"template", "templateError"},
                      transport \in {"sent", "error"}}

sendEmail(op, event, hasEmail) == last' \in emailOutcomes(op, event, hasEmail)

\* EmailNotificationService.sendOrderStateTransitionEmail(order, previousState, newState)
SendOrderStateTransitionEmail ==
    /\ \E hasEmail \in BOOLEAN :
          sendEmail("sendOrderStateTransitionEmail", "order_created", hasEmail)
    /\ UNCHANGED <<templates, nextTemplateId, options, importVars, clientVars>>

\* EmailNotificationService.sendOrderConfirmationEmail(order)
SendOrderConfirmationEmail ==
    /\ \E hasEmail \in BOOLEAN :
          sendEmail("sendOrderConfirmationEmail", "order_confirmed", hasEmail)
    /\ UNCHANGED <<templates, nextTemplateId, options, importVars, clientVars>>

\* the order, payment and fulfillment events of the framework: the target states,
\* the payment methods of the shop and the orders an event carries
ToStates ==
    [order |-> {"ArrangingPayment", "PaymentSettled"},
     payment |-> {"Authorized", "Settled"},
     fulfillment |-> {"Pending", "Shipped"}]

PaymentMethods == {"cod", "banking"}

Orders == [payments : SUBSET PaymentMethods, hasEmail : BOOLEAN]

\* the e-mail method a service method name stands for, and its template event
EmailMethods ==
    [sendOrderStateTransitionEmail |-> "order_created",
     sendOrderConfirmationEmail |-> "order_confirmed",
     sendOrderShippedEmail |-> "order_shipped"]

\* a plugin that still sends the shipped e-mail when a fulfillment is shipped
shippedOnShipped(kind, toState, order, payment) ==
    IF kind = "fulfillment" /\ toState = "Shipped" THEN "sendOrderShippedEmail" ELSE "none"

\* a plugin that confirms an order without banking payment when its fulfillment
\* is created
confirmedOnFulfillment(kind, toState, order, payment) ==
    IF kind = "fulfillment" /\ toState = "Pending" /\ "banking" \notin order.payments
    THEN "sendOrderConfirmationEmail" ELSE "none"

\* OrderNotificatorPlugin: the plugin metadata names imports, configuration,
\* dashboard and compatibility, and the class holds the options and init(); it
\* declares no provider and subscribes to no event, so an event of the framework
\* calls no method of the notification services
OrderNotificatorPlugin(kind, toState, order, payment) == "none"

\* an event of the given kind is published
publish(kind, toState, order, payment) ==
    LET method == OrderNotificatorPlugin(kind, toState, order, payment)
        from(o) == [o EXCEPT !.trigger = kind, !.toState = toState,
                             !.payment = payment, !.payments = order.payments]
    IN  IF method = "none"
        THEN last' = from([Nothing EXCEPT !.ready = order.hasEmail])
        ELSE last' \in {from(o) : o \in emailOutcomes(method, EmailMethods[method],
                                                      order.hasEmail)}

\* OrderStateTransitionEvent
OrderStateTransition ==
    /\ \E order \in Orders, toState \in ToStates.order :
          publish("order", toState, order, "")
    /\ UNCHANGED <<templates, nextTemplateId, options, importVars, clientVars>>

\* PaymentStateTransitionEvent of one of the order's payments
PaymentStateTransition ==
    /\ \E order \in Orders, toState \in ToStates.payment :
          \E payment \in order.payments : publish("payment", toState, order, payment)
    /\ UNCHANGED <<templates, nextTemplateId, options, importVars, clientVars>>

\* FulfillmentStateTransitionEvent
FulfillmentStateTransition ==
    /\ \E order \in Orders, toState \in ToStates.fulfillment :
          publish("fulfillment", toState, order, "")
    /\ UNCHANGED <<templates, nextTemplateId, options, importVars, clientVars>>

NotifyNext ==
    \/ CreateNotificationTemplate
    \/ UpdateNotificationTemplate
    \/ DeleteNotificationTemplate
    \/ InitializeDefaultNotificationTemplates
    \/ SendNotification
    \/ SendOrderStateTransitionEmail
    \/ SendOrderConfirmationEmail

-----------------------------------------------------------------------------
(* The dashboard: HEIC conversion of uploaded files, feedback on mutations *)

\* fileName.endsWith(ext)
EndsWith(s, ext) ==
    Len(s) >= Len(ext) /\ SubSeq(s, Len(s) - Len(ext) + 1, Len(s)) = ext

\* toLowerCase of a name
LowerCase(s) == [i \in 1..Len(s) |-> ToLowerCase(s[i])]

heicMimeTypes == {"image/heic", "image/heif"}
heicExtensions == {<<".", "h", "e", "i", "c">>, <<".", "h", "e", "i", "f">>}

\* a check that compares the extension as it is written
isHeicFileCaseSensitive(file) ==
    \/ file.type \in heicMimeTypes
    \/ \E ext \in heicExtensions : EndsWith(file.name, ext)

\* isHeicFile(file); File.type is lower case already
isHeicFile(file) ==
    \/ file.type \in heicMimeTypes
    \/ \E ext \in heicExtensions : EndsWith(LowerCase(file.name), ext)

\* convertHeicFile: file.name.replace(/\.(heic|heif)$/i, '') + '.png', type 'image/png'
convertedName(name) ==
    (IF \E ext \in heicExtensions : EndsWith(LowerCase(name), ext)
     THEN SubSeq(name, 1, Len(name) - 5) ELSE name) \o <<".", "p", "n", "g">>

\* the File objects of an upload; id is the identity of the object
FileShapes ==
    { [name |-> <<"a", ".", "h", "e", "i", "c">>, type |-> "image/heic"],
      [name |-> <<"a", ".", "H", "E", "I", "C">>, type |-> "application/octet-stream"],
      [name |-> <<"a", ".", "h", "e", "i", "f">>, type |-> ""],
      [name |-> <<"a", ".", "j", "p", "g">>, type |-> "image/jpeg"],
      [name |-> <<"a", ".", "j", "p", "g">>, type |-> "image/heif"],
      [name |-> <<"h", "e", "i", "c">>, type |-> "image/png"],
      [name |-> <<"a", ".", "h", "e", "i", "c", ".", "j", "p", "g">>, type |-> ""] }

Uploads ==
    {[i \in 1..Len(u) |-> [id |-> i, name |-> u[i].name, type |-> u[i].type]] :
        u \in SeqsUpTo(FileShapes, MaxFiles)}

NotReturned == [processedFiles |-> <<>>, conversions |-> <<>>, errors |-> <<>>,
                returned |-> FALSE]

\* a catch that keeps the original file when its conversion failed
keepOriginal(list, file) == Append(list, file)

\* the catch of the loop: the failed file is skipped
afterFailedConversion(list, file) == list

\* an else branch that copies the file into a new File object
copyFile(file) == [file EXCEPT !.id = Len(files) + fileIdx + 1]

\* processedFiles.push(file): the object itself
asIs(file) == file

\* one iteration of for (const file of files)
ProcessFile ==
    /\ ~converted.returned /\ fileIdx < Len(files)
    /\ LET idx == fileIdx + 1
           file == files[idx]
       IN  IF isHeicFile(file)
           THEN \/ LET convertedFile == [id |-> Len(files) + idx,
                                         name |-> convertedName(file.name),
                                         type |-> "image/png"]
                   IN  /\ processedFiles' = Append(processedFiles, convertedFile)
                       /\ conversions' = Append(conversions,
                              [original |-> file.name, converted |-> convertedFile.name,
                               index |-> idx])
                       /\ errors' = errors
                       /\ fileIdx' = fileIdx + 1
                \/ /\ errors' = Append(errors, [file |-> file.name,
                                                error |-> "Failed to convert HEIC file",
                                                index |-> idx])
                   /\ processedFiles' = afterFailedConversion(processedFiles, file)
                   /\ conversions' = conversions
                   /\ fileIdx' = fileIdx + 1
           ELSE /\ processedFiles' = Append(processedFiles, asIs(file))
                /\ fileIdx' = fileIdx + 1
                /\ UNCHANGED <<conversions, errors>>
    /\ UNCHANGED <<files, converted, feedback, importVars, notifyVars>>

\* return { processedFiles, conversions, errors }
ReturnProcessed ==
    /\ ~converted.returned /\ fileIdx >= Len(files)
    /\ converted' = [processedFiles |-> processedFiles, conversions |-> conversions,
                     errors |-> errors, returned |-> TRUE]
    /\ UNCHANGED <<files, fileIdx, processedFiles, conversions, errors, feedback,
                   importVars, notifyVars>>

\* the mutations of the dashboard pages and what their error handler calls
MutationSites ==
    [initializeDefaultNotificationTemplates |-> "toast",
     deleteNotificationTemplate |-> "console",
     importProductsFromCsv |-> "alert",
     importProductsFromShopee |-> "alert",
     createStoreSettings |-> "toast",
     updateStoreSettings |-> "toast"]

\* onError / catch of the page that issued the mutation
onMutationError(site) == MutationSites[site]

\* a mutation is issued from a page and succeeds or fails with an error of the API
Mutate ==
    /\ Len(feedback) < MaxMutations
    /\ \E site \in DOMAIN MutationSites, failed \in BOOLEAN :
          feedback' = Append(feedback,
              [site |-> site, failed |-> failed,
               shown |-> IF failed THEN onMutationError(site)
                         ELSE IF MutationSites[site] = "toast" THEN "toast" ELSE "result"])
    /\ UNCHANGED <<files, fileIdx, processedFiles, conversions, errors, converted,
                   importVars, notifyVars>>

\* the dashboard at rest
ClientIdle ==
    /\ files = <<>> /\ fileIdx = 0 /\ processedFiles = <<>> /\ conversions = <<>>
    /\ errors = <<>> /\ converted = NotReturned /\ feedback = <<>>

ClientInit ==
    /\ files \in Uploads
    /\ fileIdx = 0 /\ processedFiles = <<>> /\ conversions = <<>> /\ errors = <<>>
    /\ converted = NotReturned /\ feedback = <<>>

\* the notification services at rest, for the behaviours of the importer
NotifyIdle ==
    /\ templates = {}
    /\ nextTemplateId = 1
    /\ options = [telegramBotToken |-> FALSE, telegramChatId |-> FALSE,
                  enableOrderStatusChangeNotifications |-> FALSE,
                  enableEmailNotifications |-> FALSE]
    /\ last = Nothing

\* the importer at rest, for the behaviours of the notification services
ImportIdle ==
    /\ ImportInit
    /\ input = <<>> /\ mode = "csv" /\ dryRunArg = "undefined" /\ catalog = EmptyCatalog

vars == <<importVars, notifyVars, clientVars>>

Init == ImportInit /\ NotifyIdle /\ ClientIdle

Next == ImportNext

Spec == Init /\ [][Next]_vars

InitNotify == ImportIdle /\ NotifyInit /\ ClientIdle

NextNotify == NotifyNext

SpecNotify == InitNotify /\ [][NextNotify]_vars

-----------------------------------------------------------------------------
(* Live CSV imports handled at the same time. Each importProductsFromCsv mutation
   runs handleUpload on its own file; the resolver opens no transaction and takes
   no lock, so the handlers interleave at every await on the one catalog. The
   files here have no asset and no collection columns: for them the blocks after
   the variant is created do nothing. *)

PlainRows ==
    { BaseRow,
      [BaseRow EXCEPT !.name = Cap],
      [BaseRow EXCEPT !.sku = <<"B">>, !.name = <<>>],
      [BaseRow EXCEPT !.price = <<"x">>] }

Files == SeqsUpTo(PlainRows, MaxRecords) \ {<<>>}

RequestIds == {1, 2}

\* the handler's locals: records, rowNum, productId, and the statuses of its items
NewRequest(file) ==
    [records |-> file, row |-> 0, pc |-> "loop", productId |-> 0, statuses |-> <<>>]

\* items.push({ ...base, status }); continue / the end of the loop body
Pushed(req, status) ==
    [req EXCEPT !.statuses = Append(@, status), !.pc = "loop"]

\* for (const rec of records) { row++
RequestNextRecord ==
    /\ \E q \in RequestIds :
        /\ requests[q].pc = "loop" /\ requests[q].row < Len(requests[q].records)
        /\ requests' = [requests EXCEPT ![q].row = @ + 1, ![q].pc = "validate",
                                        ![q].productId = 0]
    /\ UNCHANGED <<input, mode, dryRunArg, records, catalog, pc, row, acc, out,
                   productId, variantId, urlIdx, createdAssetIds, inflight,
                   result, trace, throws, catalogAt, previous,
                   notifyVars, clientVars>>

\* required fields, price, listPrice; no tax name is given and dryRun is false
RequestValidate ==
    /\ \E q \in RequestIds :
        LET req == requests[q]
            r == req.records[req.row]
        IN  /\ req.pc = "validate"
            /\ requests' =
                 [requests EXCEPT ![q] =
                    IF missingRequired(r) THEN Pushed(req, "skipped")
                    ELSE IF r.price # <<>> /\ ~IsFiniteNumber(r.price)
                    THEN Pushed(req, "failed")
                    ELSE IF r.listPrice # <<>> /\ ~IsFiniteNumber(r.listPrice)
                    THEN Pushed(req, "failed")
                    ELSE [req EXCEPT !.pc = "product"]]
    /\ UNCHANGED <<input, mode, dryRunArg, records, catalog, pc, row, acc, out,
                   productId, variantId, urlIdx, createdAssetIds, inflight,
                   result, trace, throws, catalogAt, previous,
                   notifyVars, clientVars>>

\* Find or create product by slug: getOne() and productService.create are awaited
\* one after the other; the create call writes in the framework's own transaction
RequestFindProduct ==
    /\ \E q \in RequestIds :
        LET req == requests[q]
            existing == FindProductBySlug(catalog, slugOf(req.records[req.row]))
        IN  /\ req.pc = "product"
            /\ \/ requests' = [requests EXCEPT ![q] = Pushed(req, "failed")]
               \/ /\ existing # 0
                  /\ requests' = [requests EXCEPT ![q].productId = existing,
                                                  ![q].pc = "sku"]
               \/ /\ existing = 0
                  /\ requests' = [requests EXCEPT ![q].pc = "createProduct"]
    /\ UNCHANGED <<input, mode, dryRunArg, records, catalog, pc, row, acc, out,
                   productId, variantId, urlIdx, createdAssetIds, inflight,
                   result, trace, throws, catalogAt, previous,
                   notifyVars, clientVars>>

RequestCreateProduct ==
    /\ \E q \in RequestIds :
        LET req == requests[q]
            r == req.records[req.row]
        IN  /\ req.pc = "createProduct"
            /\ \/ /\ catalog' = ProductServiceCreate(catalog, baseName(r), slugOf(r))
                  /\ requests' = [requests EXCEPT
                                     ![q].productId = Len(catalog.products) + 1,
                                     ![q].pc = "sku"]
               \/ /\ requests' = [requests EXCEPT ![q] = Pushed(req, "failed")]
                  /\ catalog' = catalog
    /\ UNCHANGED <<input, mode, dryRunArg, records, pc, row, acc, out,
                   productId, variantId, urlIdx, createdAssetIds, inflight,
                   result, trace, throws, catalogAt, previous,
                   notifyVars, clientVars>>

\* Skip if a variant with this SKU already exists
RequestCheckExistingVariant ==
    /\ \E q \in RequestIds :
        LET req == requests[q]
            existingVariant == FindVariantBySku(catalog, baseSku(req.records[req.row]))
        IN  /\ req.pc = "sku"
            /\ \/ requests' = [requests EXCEPT ![q] = Pushed(req, "failed")]
               \/ /\ existingVariant # 0
                  /\ requests' = [requests EXCEPT ![q] = Pushed(req, "skipped")]
               \/ /\ existingVariant = 0
                  /\ requests' = [requests EXCEPT ![q].pc = "variant"]
    /\ UNCHANGED <<input, mode, dryRunArg, records, catalog, pc, row, acc, out,
                   productId, variantId, urlIdx, createdAssetIds, inflight,
                   result, trace, throws, catalogAt, previous,
                   notifyVars, clientVars>>

\* Create variant; created++; items.push({ ...base, status: 'created' })
RequestCreateVariant ==
    /\ \E q \in RequestIds :
        LET req == requests[q]
        IN  /\ req.pc = "variant"
            /\ \/ /\ catalog' = ProductVariantServiceCreate(catalog, req.productId,
                                                           baseSku(req.records[req.row]))
                  /\ requests' = [requests EXCEPT ![q] = Pushed(req, "created")]
               \/ /\ requests' = [requests EXCEPT ![q] = Pushed(req, "failed")]
                  /\ catalog' = catalog
    /\ UNCHANGED <<input, mode, dryRunArg, records, pc, row, acc, out,
                   productId, variantId, urlIdx, createdAssetIds, inflight,
                   result, trace, throws, catalogAt, previous,
                   notifyVars, clientVars>>

\* return { items, summary }
RequestReturn ==
    /\ \E q \in RequestIds :
        /\ requests[q].pc = "loop" /\ requests[q].row = Len(requests[q].records)
        /\ requests' = [requests EXCEPT ![q].pc = "done"]
    /\ UNCHANGED <<input, mode, dryRunArg, records, catalog, pc, row, acc, out,
                   productId, variantId, urlIdx, createdAssetIds, inflight,
                   result, trace, throws, catalogAt, previous,
                   notifyVars, clientVars>>

InitConcurrent ==
    /\ NotifyIdle /\ ClientIdle
    /\ input = <<>> /\ mode = "csv" /\ dryRunArg = "false"
    /\ catalog \in Catalogs
    /\ records = <<>> /\ pc = "start" /\ row = 0 /\ acc = EmptyAcc /\ out = EmptyAcc
    /\ productId = 0 /\ variantId = 0 /\ urlIdx = 0 /\ createdAssetIds = <<>>
    /\ inflight = {} /\ result = NoResult
    /\ trace = <<>> /\ throws = <<>> /\ catalogAt = <<>> /\ previous = NoResult
    /\ requests \in {[q \in RequestIds |-> NewRequest(f[q])] : f \in [RequestIds -> Files]}

NextConcurrent ==
    \/ RequestNextRecord
    \/ RequestValidate
    \/ RequestFindProduct
    \/ RequestCreateProduct
    \/ RequestCheckExistingVariant
    \/ RequestCreateVariant
    \/ RequestReturn

SpecConcurrent == InitConcurrent /\ [][NextConcurrent]_vars

\* a dry run of a file followed by its live import
InitTwice == Init /\ dryRun(dryRunArg)

NextTwice == ImportNext \/ RunImportAgain

SpecTwice == InitTwice /\ [][NextTwice]_vars

\* a live import of a CSV file followed by the live import of the same file
RepeatRows ==
    { BaseRow,
      [BaseRow EXCEPT !.sku = <<"B">>, !.name = <<>>],
      [BaseRow EXCEPT !.name = Cap, !.taxId = <<"7">>, !.variantAssets = <<"u1">>] }

InitRepeat ==
    /\ Init /\ mode = "csv" /\ dryRunArg = "false"
    /\ \A i \in 1..Len(input) : input[i] \in RepeatRows

NextRepeat ==
    \/ ParseCsv
    \/ NextRecord
    \/ ValidateRecord
    \/ FindOrCreateProduct
    \/ CheckExistingVariant
    \/ CreateVariant
    \/ StartAssetFetch
    \/ FinishAssetFetch
    \/ AttachProductAssets
    \/ AttachVariantAssets
    \/ AssignCollections
    \/ ReturnResult
    \/ RunImportAgain

SpecRepeat == InitRepeat /\ [][NextRepeat]_vars

\* the shop's events, with the templates as an administrator leaves them
InitEvents == InitNotify

NextEvents ==
    \/ InitializeDefaultNotificationTemplates
    \/ DeleteNotificationTemplate
    \/ OrderStateTransition
    \/ PaymentStateTransition
    \/ FulfillmentStateTransition

SpecEvents == InitEvents /\ [][NextEvents]_vars

\* the administration of the templates alone: the four template mutations
InitTemplates == InitNotify

NextTemplates ==
    \/ CreateNotificationTemplate
    \/ UpdateNotificationTemplate
    \/ DeleteNotificationTemplate
    \/ InitializeDefaultNotificationTemplates

SpecTemplates == InitTemplates /\ [][NextTemplates]_vars

\* notifications sent while an administrator sets the defaults up and edits them
InitRender == InitNotify

NextRender ==
    \/ InitializeDefaultNotificationTemplates
    \/ UpdateNotificationTemplate
    \/ SendNotification
    \/ SendOrderStateTransitionEmail
    \/ SendOrderConfirmationEmail

SpecRender == InitRender /\ [][NextRender]_vars

\* the dashboard processes an upload
InitHeic == ImportIdle /\ NotifyIdle /\ ClientInit

NextHeic ==
    \/ ProcessFile
    \/ ReturnProcessed

SpecHeic == InitHeic /\ [][NextHeic]_vars

\* mutations are issued from the dashboard's pages
InitDashboard == ImportIdle /\ NotifyIdle /\ ClientIdle

NextDashboard == Mutate

SpecDashboard == InitDashboard /\ [][NextDashboard]_vars

-----------------------------------------------------------------------------
(* Vocabulary of the properties *)

Done == pc = "done"
Live == ~dryRun(dryRunArg)

Rows == 1..Len(records)

\* the catalog when row r was left: the next row's start, or the present catalog
CatalogAfter(r) == IF r < Len(catalogAt) THEN catalogAt[r + 1] ELSE catalog

ItemsOf(r) == {i \in 1..Len(result.items) : result.items[i].row = r}

\* the item that closes row r: the last one pushed for it
FinalItem(r) ==
    result.items[CHOOSE i \in ItemsOf(r) : \A j \in ItemsOf(r) : j <= i]

EventsOf(r) == {i \in 1..Len(trace) : trace[i].row = r}

OpsOf(r) == {trace[i].op : i \in EventsOf(r)}

ReadOnlyOps == {"record", "taxCategoryService.findAll"}

RowThrew(r) == \E i \in 1..Len(throws) : throws[i].row = r /\ throws[i].level = "row"

Carried(r, m) ==
    \E i \in ItemsOf(r) :
        /\ result.items[i].status = "failed"
        /\ m \in Range(result.items[i].message)

SummarySum ==
    result.summary.created + result.summary.updated
        + result.summary.skipped + result.summary.failed

-----------------------------------------------------------------------------
(* Properties of the importer *)

\* C1: importProductsFromCsv with dryRun = true persists nothing: no step of the
\* request changes the catalog (products, variants, assets, collection
\* assignments), it makes no creating or updating call, and the items it returns
\* carry no product or variant id.
C1_CsvDryRunPersistsNothing ==
    /\ [][(mode = "csv" /\ dryRunArg = "true") => catalog' = catalog]_vars
    /\ []((mode = "csv" /\ dryRunArg = "true") =>
            /\ \A i \in 1..Len(trace) : trace[i].op \in ReadOnlyOps
            /\ \A i \in 1..Len(result.items) :
                  result.items[i].productId = 0 /\ result.items[i].variantId = 0)

C1_Witness ==
    /\ Done /\ mode = "csv" /\ dryRunArg = "true"
    /\ Len(records) = 2
    /\ \A r \in Rows : FinalItem(r).status = "created"
                       /\ FinalItem(r).message = <<"Dry run (would create new product/variant)">>
    /\ \E r \in Rows : records[r].assets # <<>>
    /\ \E r \in Rows : records[r].collectionName # <<>>
    /\ catalog = EmptyCatalog

\* C2 as stated: every exception thrown while a record is processed, an error of
\* the asset service included, gives the record a failed item with the message and
\* adds one to the failed counter, and the later records are still processed.
C2_EveryThrowCountsAsFailed ==
    Done =>
        /\ \A i \in 1..Len(throws) : Carried(throws[i].row, throws[i].message)
        /\ result.summary.failed = Cardinality({throws[i].row : i \in 1..Len(throws)})
        /\ \A r \in Rows : "record" \in OpsOf(r)

\* C2 amended: an exception that reaches the row-level catch gives the record a
\* failed item with the message and adds one to the failed counter; an exception
\* caught by the per-URL catch of the asset loops gives a failed item with the
\* message and leaves the counter alone; every later record is still processed.
C2_RowLevelThrowCountsAsFailed ==
    Done =>
        /\ \A i \in 1..Len(throws) : Carried(throws[i].row, throws[i].message)
        /\ \A r \in Rows : RowThrew(r) <=> FinalItem(r).status = "failed"
        /\ result.summary.failed = Cardinality({r \in Rows : RowThrew(r)})
        /\ \A r \in Rows : "record" \in OpsOf(r)

C2_Witness ==
    /\ Done /\ Len(records) = 2
    /\ RowThrew(1)
    /\ \E i \in 1..Len(throws) : throws[i].row = 2 /\ throws[i].level = "asset"
    /\ FinalItem(2).status = "created"
    /\ result.summary.failed = 1

\* a variant with the record's SKU was stored when row r started
SkuExistedAt(r) ==
    \E v \in 1..Len(catalogAt[r].variants) :
        catalogAt[r].variants[v].sku = Trim(records[r].sku)

NoVariantCreatedIn(r) ==
    /\ Len(CatalogAfter(r).variants) = Len(catalogAt[r].variants)
    /\ "productVariantService.create" \notin OpsOf(r)

\* C3 as stated: in a live import a record whose SKU is the SKU of an existing
\* variant is reported as skipped and no variant is created for it.
C3_ExistingSkuSkipped ==
    (Done /\ Live) =>
        \A r \in Rows :
            SkuExistedAt(r) => FinalItem(r).status = "skipped" /\ NoVariantCreatedIn(r)

\* C3 amended: in a live import a record whose SKU is the SKU of an existing
\* variant gets no variant and is never reported as created: it is reported as
\* skipped, or as failed when a step before the SKU check threw.
C3_ExistingSkuNeverCreated ==
    (Done /\ Live) =>
        \A r \in Rows :
            SkuExistedAt(r) =>
                /\ NoVariantCreatedIn(r)
                /\ FinalItem(r).status \in {"skipped", "failed"}
                /\ FinalItem(r).status = "failed" <=> RowThrew(r)

C3_Witness ==
    /\ Done /\ Live /\ Len(records) = 2
    /\ catalogAt[1] = EmptyCatalog
    /\ SkuExistedAt(2)
    /\ FinalItem(1).status = "created"
    /\ FinalItem(2).status = "skipped"
    /\ FinalItem(2).message = MsgSkuExists

\* the slug the importer looks a record up by: the given one, else from the name
SlugProductAt(r) ==
    LET given == Trim(records[r].slug)
        slug == IF given # <<>> THEN given ELSE slugify(Trim(records[r].name))
        hits == {p \in 1..Len(catalogAt[r].products) : catalogAt[r].products[p].slug = slug}
    IN  IF hits = {} THEN 0 ELSE Min(hits)

\* C4: in a live import a record whose slug is the slug of an existing product
\* (one created by an earlier row included) creates no product, and a variant
\* created for it belongs to that product.
C4_SlugMatchReusesProduct ==
    (Done /\ Live) =>
        \A r \in Rows :
            SlugProductAt(r) # 0 =>
                /\ Len(CatalogAfter(r).products) = Len(catalogAt[r].products)
                /\ "productService.create" \notin OpsOf(r)
                /\ \A v \in (Len(catalogAt[r].variants) + 1)..Len(CatalogAfter(r).variants) :
                       CatalogAfter(r).variants[v].productId = SlugProductAt(r)

C4_Witness ==
    /\ Done /\ Live /\ Len(records) = 2
    /\ catalogAt[1] = EmptyCatalog
    /\ records[2].slug = <<>> /\ records[2].name # records[1].name
    /\ SlugProductAt(2) = 1
    /\ Len(catalog.products) = 1
    /\ Len(catalog.variants) = 2
    /\ catalog.variants[2].productId = 1
    /\ FinalItem(2).status = "created"

\* C5: in every import result summary.total is the number of input records and
\* created + updated + skipped + failed = total.
C5_SummaryAddsUp ==
    Done =>
        /\ result.summary.total = Len(input)
        /\ SummarySum = result.summary.total

C5_Witness ==
    /\ Done /\ Len(input) = 2
    /\ result.summary.created = 1 /\ result.summary.failed = 1
    /\ Len(result.items) > 2

\* C6: a record without a sku or without a name (after trimming) is reported as
\* skipped with 'Missing required fields: sku and name', by one item, and causes no
\* lookup, no creation and no asset fetch, in dry-run and in live mode alike.
C6_MissingFieldsSkipped ==
    Done =>
        \A r \in Rows :
            (Trim(records[r].sku) = <<>> \/ Trim(records[r].name) = <<>>) =>
                /\ Cardinality(ItemsOf(r)) = 1
                /\ FinalItem(r).status = "skipped"
                /\ FinalItem(r).message = MsgMissing
                /\ OpsOf(r) = {"record"}
                /\ CatalogAfter(r) = catalogAt[r]

C6_Witness ==
    /\ Done /\ Live /\ Len(records) = 2
    /\ records[1].sku = <<" ">> /\ records[1].assets # <<>>
    /\ records[2].name = <<>>
    /\ result.summary.skipped = 2

\* C7: importProductsFromShopee with dryRun = true is a preview: no step of the
\* request changes the catalog and it makes no creating or updating call.
C7_ShopeeDryRunPersistsNothing ==
    /\ [][(mode = "shopee" /\ dryRunArg = "true") => catalog' = catalog]_vars
    /\ []((mode = "shopee" /\ dryRunArg = "true") =>
            /\ \A i \in 1..Len(trace) : trace[i].op \in ReadOnlyOps
            /\ \A i \in 1..Len(out.items) :
                  out.items[i].productId = 0 /\ out.items[i].variantId = 0)

C7_Witness ==
    /\ Done /\ mode = "shopee" /\ dryRunArg = "true"
    /\ Len(records) = 2
    /\ \A r \in Rows : FinalItem(r).status = "created" /\ FinalItem(r).message = <<"Dry run">>
    /\ \E r \in Rows : records[r].assets # <<>>
    /\ \E r \in Rows : records[r].collectionName # <<>>
    /\ catalog = EmptyCatalog

\* C8: rows are processed one after another and the asset URLs of a row one at a
\* time: at most one fetch-and-upload is in progress, it belongs to the row being
\* processed, no row starts while one is in progress, and the operations of the
\* request are ordered by row.
C8_Sequential ==
    /\ Cardinality(inflight) <= 1
    /\ \A f \in inflight : f.row = row /\ f.list = pc
    /\ pc \in {"loop", "validate", "merge", "done"} => inflight = {}
    /\ \A i \in 1..(Len(trace) - 1) : trace[i].row <= trace[i + 1].row

C8_Witness ==
    /\ row = 2
    /\ \E f \in inflight : f.idx = 2
    /\ \E i \in 1..Len(trace) : trace[i].row = 1 /\ trace[i].op = "fetch"

FetchesOf(r, list, idx) ==
    {i \in 1..Len(trace) :
        trace[i].op = "fetch" /\ trace[i].row = r /\ trace[i].list = list /\ trace[i].idx = idx}

\* C9: no retries: each record enters processing at most once and each entry of
\* an asset list is fetched at most once, also after a failure: no two events of
\* the request start the same record or fetch the same entry of the same list.
C9_NoRetries ==
    LET started == SelectSeq(trace, LAMBDA e : e.op \in {"record", "fetch"})
    IN  \A i, j \in 1..Len(started) : started[i] = started[j] => i = j

C9_Witness ==
    /\ Done /\ Live
    /\ \E i \in 1..Len(throws) : throws[i].level = "asset" /\ throws[i].row = 1
    /\ RowThrew(2)
    /\ Cardinality(FetchesOf(1, "assets", 1)) = 1
    /\ Cardinality(FetchesOf(1, "assets", 2)) = 1

-----------------------------------------------------------------------------
(* Properties of the notification services *)

\* C10: when no active template exists for the type and event of a notification
\* that is otherwise ready to go out (credentials or switches set, a recipient
\* known, the template lookup answered), the notification is still handed to its
\* transport, in the default format.
C10_MissingTemplateFallsBack ==
    (IsCall(last) /\ last.ready /\ last.lookup = "ok"
        /\ findByTypeAndEvent(templates, last.type, last.event) = {}) =>
            last.transport # "none" /\ last.rendering = "default"

\* after an event of the framework, an e-mail for the given template event was
\* handed to the mail transport
EmailSentOnEvent(event) ==
    /\ last.trigger # "none"
    /\ last.type = "email" /\ last.event = event
    /\ last.transport # "none"

\* a customer with an address, e-mail notifications switched on and an active
\* e-mail template for the event: a call of the e-mail method would send
WouldSend(event) ==
    /\ last.ready
    /\ options = AllSet
    /\ findByTypeAndEvent(templates, "email", event) # {}

\* C11: whatever order, payment or fulfillment state transition occurs, no
\* order-shipped e-mail is handed to the mail transport.
C11_NoOrderShippedEmail == ~EmailSentOnEvent("order_shipped")

C11_Witness ==
    /\ last.trigger = "fulfillment" /\ last.toState = "Shipped"
    /\ WouldSend("order_shipped")
    /\ last.transport = "none"

C13_DefaultsCoverEveryCombination ==
    (last.op = "initialize" /\ last.created = Cardinality(templates)) =>
        \A type \in NotificationType, event \in NotificationEvent :
            findByTypeAndEvent(templates, type, event) # {}

-----------------------------------------------------------------------------
(* Properties of the dashboard *)

\* C14: every mutation issued from the dashboard that failed with an error of the
\* API was shown to the user by a toast.
C14_MutationErrorsToasted ==
    \A i \in 1..Len(feedback) : feedback[i].failed => feedback[i].shown = "toast"

\* the input file a processed file comes from: itself, or the file it was
\* converted from
SourceIndex(f) == IF f.id > Len(files) THEN f.id - Len(files) ELSE f.id

\* the input files the returned lists account for
Accounted ==
    {SourceIndex(converted.processedFiles[k]) : k \in 1..Len(converted.processedFiles)}
        \cup {converted.errors[e].index : e \in 1..Len(converted.errors)}

\* C15: when the conversion of a HEIC file fails, the failure is recorded in
\* errors under the file's name, the original file is not in processedFiles, and
\* every file after it is still processed.
C15_FailedConversionSkipped ==
    converted.returned =>
        \A e \in 1..Len(converted.errors) :
            LET i == converted.errors[e].index
            IN  /\ converted.errors[e].file = files[i].name
                /\ \A k \in 1..Len(converted.processedFiles) :
                       SourceIndex(converted.processedFiles[k]) # i
                /\ \A j \in (i + 1)..Len(files) : j \in Accounted

C15_Witness ==
    /\ converted.returned /\ Len(files) = 3
    /\ Len(converted.errors) = 1 /\ converted.errors[1].index = 1
    /\ Len(converted.conversions) = 1 /\ converted.conversions[1].index = 2
    /\ Len(converted.processedFiles) = 2 /\ converted.processedFiles[2] = files[3]

\* HEIC by the wording of the documentation: the MIME type is image/heic or
\* image/heif, or the last five characters of the name are .heic or .heif in
\* any case
LooksHeic(file) ==
    LET n == Len(file.name)
        ending == IF n >= 5 THEN [k \in 1..5 |-> ToLowerCase(file.name[n - 5 + k])]
                  ELSE <<>>
    IN  \/ file.type = "image/heic" \/ file.type = "image/heif"
        \/ ending = <<".", "h", "e", "i", "c">> \/ ending = <<".", "h", "e", "i", "f">>

C17_IsHeicFileExact ==
    /\ \A i \in 1..Len(files) : isHeicFile(files[i]) <=> LooksHeic(files[i])
    /\ \A i \in 1..fileIdx :
          LooksHeic(files[i]) <=>
              \/ \E c \in 1..Len(conversions) : conversions[c].index = i
              \/ \E e \in 1..Len(errors) : errors[e].index = i

C17_Witness ==
    /\ converted.returned /\ Len(files) = 3
    /\ files[1].type = "application/octet-stream" /\ LooksHeic(files[1])
    /\ files[2].type = "image/heif" /\ ~EndsWith(LowerCase(files[2].name), <<".", "h", "e", "i", "f">>)
    /\ files[3].type = "" /\ ~LooksHeic(files[3]) /\ Len(files[3].name) > 5
    /\ Len(converted.conversions) = 2

-----------------------------------------------------------------------------
(* Properties of a dry run followed by the live import *)

\* the status a result reports for each row: that of the row's last item
StatusesOf(res) ==
    [r \in 1..res.summary.total |->
        LET of == {i \in 1..Len(res.items) : res.items[i].row = r}
        IN  res.items[CHOOSE i \in of : \A j \in of : j <= i].status]

\* C18: the statuses per row and the summary of a dry run equal those of the live
\* import of the same file that follows it on the same catalog (stated for live
\* imports in which no call fails).
C18_DryRunPredictsLiveImport ==
    (Done /\ previous # NoResult /\ throws = <<>>) =>
        /\ StatusesOf(result) = StatusesOf(previous)
        /\ result.summary = previous.summary

\* C20: a record a live import reports as skipped leaves the catalog as it was when
\* the record started: no product, variant, asset or collection assignment is
\* created for it.
C20_SkippedRecordLeavesCatalogUnchanged ==
    (Done /\ Live) =>
        \A r \in Rows :
            FinalItem(r).status = "skipped" => CatalogAfter(r) = catalogAt[r]

-----------------------------------------------------------------------------
(* Properties of imports handled at the same time *)

\* the SKUs of the variants differ pairwise
SkusDistinct(cat) ==
    \A i, j \in 1..Len(cat.variants) :
        cat.variants[i].sku = cat.variants[j].sku => i = j

\* C19: the importer never creates two variants with the same SKU when two live
\* import requests containing the same SKU run at the same time.
C19_NoDuplicateSkuAcrossRequests == SkusDistinct(catalog)

-----------------------------------------------------------------------------
(* Further properties of the import result *)

Statuses == {"created", "skipped", "failed"}

\* the number of items of a status in the result
CountStatus(st) ==
    Cardinality({i \in 1..Len(result.items) : result.items[i].status = st})

\* the number of records whose last item has a status
CountFinal(st) == Cardinality({r \in Rows : FinalItem(r).status = st})

\* the items pushed for a record before its last one
Notes == {i \in 1..Len(result.items) : \E j \in ItemsOf(result.items[i].row) : j > i}

\* C21 as stated: every result has exactly one item per input record, and the
\* number of items of each status equals the summary counter of that status.
C21_OneItemPerRecord ==
    Done =>
        /\ Len(result.items) = Len(input)
        /\ \A st \in Statuses : CountStatus(st) = result.summary[st]

\* C21: every result has at least one item per input record; the last item of a
\* record is the one the summary counts, so the number of records whose last item
\* has a status equals the counter of that status; every earlier item of a record
\* (a failed asset URL, an unknown collection) has status failed and is counted by
\* no counter.
C21_OneCountedItemPerRecord ==
    Done =>
        /\ \A r \in Rows : ItemsOf(r) # {}
        /\ \A st \in Statuses : CountFinal(st) = result.summary[st]
        /\ \A i \in Notes : result.items[i].status = "failed"
        /\ CountStatus("failed") = result.summary.failed + Cardinality(Notes)
        /\ CountStatus("created") = result.summary.created
        /\ CountStatus("skipped") = result.summary.skipped

C21_Witness ==
    /\ Done
    /\ \E r \in Rows : Cardinality(ItemsOf(r)) > 1 /\ FinalItem(r).status = "created"
    /\ \E r \in Rows : FinalItem(r).status = "skipped"

-----------------------------------------------------------------------------
(* Properties of a live import run twice *)

\* the second live import of the file has returned
RepeatDone == Done /\ Live /\ previous # NoResult

\* no product and no variant was added between two catalogs
NothingCreated(before, after) ==
    /\ Len(after.products) = Len(before.products)
    /\ Len(after.variants) = Len(before.variants)

\* C23 as stated: the second of two live imports of a file creates nothing: every
\* row the first run reported as created is reported as skipped by the second, and
\* the second run adds no product and no variant.
C23_SecondRunCreatesNothing ==
    RepeatDone =>
        \A r \in Rows :
            /\ StatusesOf(previous)[r] = "created" => FinalItem(r).status = "skipped"
            /\ NothingCreated(catalogAt[r], CatalogAfter(r))

\* C23: in the second of two live imports of a file, a row the first run reported
\* as created leaves the catalog unchanged and is reported as skipped, or as failed
\* when a lookup of the second run throws; the second run adds a product or a
\* variant only for rows the first run reported as failed.
C23_SecondRunSkipsCreatedRows ==
    RepeatDone =>
        \A r \in Rows :
            /\ StatusesOf(previous)[r] = "created" =>
                  /\ FinalItem(r).status \in {"skipped", "failed"}
                  /\ FinalItem(r).status = "failed" => RowThrew(r)
                  /\ CatalogAfter(r) = catalogAt[r]
            /\ ~NothingCreated(catalogAt[r], CatalogAfter(r)) =>
                  StatusesOf(previous)[r] = "failed"

C23_Witness ==
    /\ RepeatDone /\ Len(records) = 2
    /\ \E r \in Rows :
          /\ StatusesOf(previous)[r] = "created" /\ FinalItem(r).status = "skipped"
          /\ records[r].variantAssets # <<>>
    /\ \E r \in Rows : StatusesOf(previous)[r] = "failed"
    /\ \E r \in Rows : ~NothingCreated(catalogAt[r], CatalogAfter(r))

-----------------------------------------------------------------------------
(* The two pipelines *)

\* the status of a record as a function of the record, the dryRun flag, the
\* catalog when the record starts and whether a call made for it threw
Outcome(r) ==
    IF missingRequired(records[r]) THEN "skipped"
    ELSE IF RowThrew(r) THEN "failed"
    ELSE IF ~Live THEN "created"
    ELSE IF SkuExistedAt(r) THEN "skipped"
    ELSE "created"

\* C24: importFromShopeeCurl (through processRecords) and handleUpload compute the
\* same result from the same records, dryRun flag and catalog: in both, the items
\* are numbered with the positions of their records and come in that order, the
\* status of a record is the same function of the record, the flag, the catalog
\* and the calls that threw, and the summary counts the records by that status.
C24_PipelinesAgree ==
    Done =>
        /\ \A i \in 1..Len(result.items) : result.items[i].row \in Rows
        /\ \A i \in 1..(Len(result.items) - 1) :
              result.items[i].row <= result.items[i + 1].row
        /\ \A r \in Rows : ItemsOf(r) # {} /\ FinalItem(r).status = Outcome(r)
        /\ \A st \in Statuses :
              result.summary[st] = Cardinality({r \in Rows : Outcome(r) = st})
        /\ result.summary.updated = 0
        /\ result.summary.total = Len(records)

C24_Witness ==
    /\ Done /\ Live /\ mode = "shopee" /\ Len(records) = 2
    /\ FinalItem(1).status = "created" /\ Cardinality(ItemsOf(1)) > 1
    /\ FinalItem(2).status = "skipped" /\ SkuExistedAt(2)

\* the stored templates of a type and event that are switched off
Inactive(type, event) ==
    {t \in templates : t.type = type /\ t.event = event /\ ~t.isActive}

\* C25: a notification that is rendered from a stored template is rendered from a
\* template that is active and has the type and the event of the notification; a
\* template that updateNotificationTemplate has switched off renders no
\* notification for as long as it stays switched off.
C25_InactiveTemplateNeverRenders ==
    (IsCall(last) /\ last.templateId # 0) =>
        \E t \in templates :
            /\ t.id = last.templateId
            /\ t.isActive
            /\ t.type = last.type
            /\ t.event = last.event

C25_Witness ==
    /\ IsCall(last) /\ last.ready /\ last.lookup = "ok"
    /\ last.templateId = 0
    /\ Inactive(last.type, last.event) # {}
    /\ last.op = "sendNotification" /\ last.rendering = "default"
    /\ last.transport = "sent"

\* no two stored templates have the same name
NamesUnique == \A t, u \in templates : t.name = u.name => t = u

\* the mutation just made tried to save a name that another template has
TriedDuplicate(ops) == last'.op \in ops /\ last'.duplicate

\* C26 as stated: no two stored templates ever have the same name, and every
\* mutation (create, update, initialize defaults) that tries to save a name another
\* template has fails and leaves the stored templates as they were.
C26_DuplicateNameFailsUnchanged ==
    /\ []NamesUnique
    /\ [][TriedDuplicate({"create", "update", "initialize"}) =>
            (~last'.ok /\ templates' = templates)]_vars

\* C26: no two stored templates ever have the same name; createNotificationTemplate
\* and updateNotificationTemplate with a name another template has fail and leave
\* the stored templates as they were; initializeDefaultNotificationTemplates does
\* not fail when the name of a default is taken: it creates no template of that
\* name and still resolves.
C26_NamesStayUnique ==
    /\ []NamesUnique
    /\ [][TriedDuplicate({"create", "update"}) =>
            (~last'.ok /\ templates' = templates)]_vars
    /\ [][TriedDuplicate({"initialize"}) =>
            (last'.ok /\ \A t \in templates' \ templates :
                            \A u \in templates : u.name # t.name)]_vars

C26_Witness ==
    /\ last.op = "update" /\ last.duplicate /\ ~last.ok
    /\ Cardinality(templates) = MaxTemplateId
    /\ \E t \in templates : t.name = "Custom Telegram"

\* every default has an active template of its type and event
DefaultsPresent ==
    \A k \in 1..Len(getDefaultTemplates) :
        findByTypeAndEvent(templates, getDefaultTemplates[k].type,
                           getDefaultTemplates[k].event) # {}

\* C27: a call of initializeDefaultNotificationTemplates that follows another call
\* directly, or that is made while every default still has its active template,
\* creates no template, returns the empty list and leaves the stored templates
\* as they are.
C27_InitializeDefaultsIdempotent ==
    [][(last'.op = "initialize" /\ (last.op = "initialize" \/ DefaultsPresent)) =>
          /\ last'.created = 0
          /\ templates' = templates
          /\ nextTemplateId' = nextTemplateId]_vars

C27_Witness ==
    /\ last.op = "initialize" /\ last.created = 0 /\ ~last.changed
    /\ nextTemplateId = Len(getDefaultTemplates) + 1
    /\ {t.name : t \in templates} =
          {getDefaultTemplates[k].name : k \in 1..Len(getDefaultTemplates)}
    /\ DefaultsPresent

\* C28: when sendOrderStateTransitionEmail renders an e-mail from a template, the
\* template is the active e-mail template of the event order_status_changed.
C28_TransitionEmailUsesStatusChangedTemplate ==
    (last.op = "sendOrderStateTransitionEmail" /\ last.templateId # 0) =>
        \E t \in templates :
            /\ t.id = last.templateId
            /\ t.isActive
            /\ t.type = "email"
            /\ t.event = "order_status_changed"

\* C29: every call of sendNotification resolves: with the bot token or the chat id
\* missing it returns without a template lookup and without an HTTP request; a
\* lookup that throws, a template that fails to process, a response other than 200
\* and an error of the request all end with the promise resolved.
C29_SendNotificationNeverRejects ==
    last.op = "sendNotification" =>
        /\ last.settled = "resolved"
        /\ ~last.ready => (last.lookup = "none" /\ last.transport = "none")
        /\ last.lookup = "error" => last.transport = "none"

C29_Witness ==
    /\ last.op = "sendNotification" /\ last.ready
    /\ last.templateId # 0 /\ last.rendering = "templateError"
    /\ last.transport = "rejected"
    /\ last.settled = "resolved"

====
